---- MODULE Spec2Model ----
(***************************************************************************)
(* Sasso, Carta, Forbice: the move resolver (gameLogic.ts) and the round   *)
(* orchestrator (the App component and its useState/useEffect hooks).      *)
(*                                                                         *)
(* One action is one task of the browser's event loop.  A click on a       *)
(* rendered control is a discrete event: React flushes its state update,   *)
(* the re-render and the effect (cleanup, then body) before the next event *)
(* is dispatched, so the handler, the commit and the effect are one step.  *)
(* The callback of the timeout only enqueues its update and returns; the   *)
(* render of that update is a later task, and a click on a control of the  *)
(* render still on screen can be dispatched in between.  The queued update *)
(* is then applied before the click's, in the order of the hook's queue.   *)
(***************************************************************************)
EXTENDS Integers, Sequences, FiniteSets, TLC

VARIABLES gameState, rendered, updateQueue, timer, lastEvent, history, roundAtStart

vars == <<gameState, rendered, updateQueue, timer, lastEvent, history, roundAtStart>>

\* ---------------------------------------------------------------- bounds
\* rounds played in one session before the start control is no longer used
MaxRounds == 3
\* Math.random() is drawn from {0/RandomSteps, ..., (RandomSteps-1)/RandomSteps}
RandomSteps == 5

RandomValues == 0 .. (RandomSteps - 1)

\* ------------------------------------------------------------ gameLogic.ts
MOVES == <<"rock", "paper", "scissors">>

Move == {MOVES[i] : i \in 1 .. Len(MOVES)}

GameMode == {"human-vs-computer", "computer-vs-computer"}

\* Array.prototype.includes
includes(arr, x) == \E i \in 1 .. Len(arr) : arr[i] = x

\* a table in which rock also beats paper
winConditionsRockBeatsAll ==
    [rock |-> <<"scissors", "paper">>, paper |-> <<"rock">>, scissors |-> <<"paper">>]

winConditions ==
    [rock |-> <<"scissors">>, paper |-> <<"rock">>, scissors |-> <<"paper">>]

\* a resolver without the equality test: equal moves fall through to the table
determineWinnerNoTieTest(player1Move, player2Move) ==
    IF includes(winConditions[player1Move], player2Move)
    THEN "player1"
    ELSE "player2"

\* a resolver whose last branch forgets the table: every non-tie is a win of player1
determineWinnerAlwaysFirst(player1Move, player2Move) ==
    IF player1Move = player2Move THEN "tie" ELSE "player1"

\* a resolver with the table reversed: each move "beats" the move that beats it
determineWinnerReversed(player1Move, player2Move) ==
    IF player1Move = player2Move
    THEN "tie"
    ELSE IF includes(winConditions[player2Move], player1Move)
         THEN "player1"
         ELSE "player2"

determineWinner(player1Move, player2Move) ==
    IF player1Move = player2Move
    THEN "tie"
    ELSE IF includes(winConditions[player1Move], player2Move)
         THEN "player1"
         ELSE "player2"

\* a round record whose winner is resolved with the two moves exchanged
playRoundWinnerSwapped(player1Move, player2Move) ==
    [winner |-> determineWinner(player2Move, player1Move),
     player1Move |-> player1Move,
     player2Move |-> player2Move]

\* a round record that stores the two moves under each other's name
playRoundSwapsMoves(player1Move, player2Move) ==
    [winner |-> determineWinner(player1Move, player2Move),
     player1Move |-> player2Move,
     player2Move |-> player1Move]

playRound(player1Move, player2Move) ==
    [winner |-> determineWinner(player1Move, player2Move),
     player1Move |-> player1Move,
     player2Move |-> player2Move]

\* a sampler that scales by MOVES.length - 1: the last move is never drawn
getRandomMoveNeverLast(r) == MOVES[((r * (Len(MOVES) - 1)) \div RandomSteps) + 1]

\* MOVES[Math.floor(Math.random() * MOVES.length)], Math.random() = r / RandomSteps
\* (sequences are 1-based)
getRandomMove(r) == MOVES[((r * Len(MOVES)) \div RandomSteps) + 1]

\* ----------------------------------------------------------------- App.tsx
\* lastResult?: GameResult, when absent
undefined ==
    [winner |-> "undefined", player1Move |-> "undefined", player2Move |-> "undefined"]

\* an initial state that is already playing
initialGameStatePlaying ==
    [mode |-> "human-vs-computer",
     currentRound |-> 0,
     scores |-> [player1 |-> 0, player2 |-> 0, ties |-> 0],
     lastResult |-> undefined,
     isPlaying |-> TRUE]

initialGameState ==
    [mode |-> "human-vs-computer",
     currentRound |-> 0,
     scores |-> [player1 |-> 0, player2 |-> 0, ties |-> 0],
     lastResult |-> undefined,
     isPlaying |-> FALSE]

\* a mode change that does nothing when the mode is already the active one
handleModeChangeSkipsSame(prev, mode) ==
    IF mode = prev.mode THEN prev ELSE [initialGameState EXCEPT !.mode = mode]

\* a mode change that only records the new mode and keeps the session
handleModeChangeKeepsSession(prev, mode) == [prev EXCEPT !.mode = mode]

\* handleModeChange: setGameState({...initialGameState, mode})
handleModeChange(prev, mode) == [initialGameState EXCEPT !.mode = mode]

\* a round update that counts the score but not the round
roundUpdateSkipsRound(prev, result) ==
    [prev EXCEPT
        !.scores = [player1 |-> prev.scores.player1
                                  + (IF result.winner = "player1" THEN 1 ELSE 0),
                    player2 |-> prev.scores.player2
                                  + (IF result.winner = "player2" THEN 1 ELSE 0),
                    ties    |-> prev.scores.ties
                                  + (IF result.winner = "tie" THEN 1 ELSE 0)],
        !.lastResult = result,
        !.isPlaying = FALSE]

\* a round update that forgets to count ties
roundUpdateNoTies(prev, result) ==
    [prev EXCEPT
        !.currentRound = prev.currentRound + 1,
        !.scores = [player1 |-> prev.scores.player1
                                  + (IF result.winner = "player1" THEN 1 ELSE 0),
                    player2 |-> prev.scores.player2
                                  + (IF result.winner = "player2" THEN 1 ELSE 0),
                    ties    |-> prev.scores.ties],
        !.lastResult = result,
        !.isPlaying = FALSE]

\* a round update that falls back to the initial mode
roundUpdateResetsMode(prev, result) ==
    [prev EXCEPT
        !.mode = initialGameState.mode,
        !.currentRound = prev.currentRound + 1,
        !.scores = [player1 |-> prev.scores.player1
                                  + (IF result.winner = "player1" THEN 1 ELSE 0),
                    player2 |-> prev.scores.player2
                                  + (IF result.winner = "player2" THEN 1 ELSE 0),
                    ties    |-> prev.scores.ties
                                  + (IF result.winner = "tie" THEN 1 ELSE 0)],
        !.lastResult = result,
        !.isPlaying = FALSE]

\* a round update that ends the round without storing its result
roundUpdateDropsResult(prev, result) ==
    [prev EXCEPT
        !.currentRound = prev.currentRound + 1,
        !.scores = [player1 |-> prev.scores.player1
                                  + (IF result.winner = "player1" THEN 1 ELSE 0),
                    player2 |-> prev.scores.player2
                                  + (IF result.winner = "player2" THEN 1 ELSE 0),
                    ties    |-> prev.scores.ties
                                  + (IF result.winner = "tie" THEN 1 ELSE 0)],
        !.isPlaying = FALSE]

\* the functional update both completion handlers pass to setGameState
roundUpdate(prev, result) ==
    [prev EXCEPT
        !.currentRound = prev.currentRound + 1,
        !.scores = [player1 |-> prev.scores.player1
                                  + (IF result.winner = "player1" THEN 1 ELSE 0),
                    player2 |-> prev.scores.player2
                                  + (IF result.winner = "player2" THEN 1 ELSE 0),
                    ties    |-> prev.scores.ties
                                  + (IF result.winner = "tie" THEN 1 ELSE 0)],
        !.lastResult = result,
        !.isPlaying = FALSE]

\* a human-move handler that passes the two moves to playRound in the wrong order
handleHumanMoveSwapped(closure, prev, move, r) ==
    IF ~closure.isPlaying
    THEN prev
    ELSE roundUpdate(prev, playRound(getRandomMove(r), move))

\* a human-move handler without the isPlaying guard
handleHumanMoveNoGuard(closure, prev, move, r) ==
    roundUpdate(prev, playRound(move, getRandomMove(r)))

\* handleHumanMove: the guard reads the isPlaying captured by the render that
\* created the callback; the update is applied to the latest state
handleHumanMove(closure, prev, move, r) ==
    IF ~closure.isPlaying
    THEN prev
    ELSE roundUpdate(prev, playRound(move, getRandomMove(r)))

\* a computer round that samples once and gives both sides the same move
handleComputerVsComputerOneDraw(closure, prev, r1, r2) ==
    IF ~closure.isPlaying
    THEN prev
    ELSE roundUpdate(prev, playRound(getRandomMove(r1), getRandomMove(r1)))

\* handleComputerVsComputer: same guard, both moves sampled
handleComputerVsComputer(closure, prev, r1, r2) ==
    IF ~closure.isPlaying
    THEN prev
    ELSE roundUpdate(prev, playRound(getRandomMove(r1), getRandomMove(r2)))

\* a start that already counts the round
startNewRoundCountsRound(prev) ==
    [prev EXCEPT !.isPlaying = TRUE, !.lastResult = undefined,
                 !.currentRound = prev.currentRound + 1]

\* a start that leaves the previous result on display
startNewRoundKeepsResult(prev) == [prev EXCEPT !.isPlaying = TRUE]

\* startNewRound
startNewRound(prev) == [prev EXCEPT !.isPlaying = TRUE, !.lastResult = undefined]

\* a reset that forgets the current mode and falls back to the initial one
resetGameForgetsMode(prev) == initialGameState

\* a reset that zeroes the round counter but keeps the scores
resetGameKeepScores(prev) ==
    [initialGameState EXCEPT !.mode = prev.mode, !.scores = prev.scores]

\* resetGame: setGameState(prev => ({...initialGameState, mode: prev.mode}))
resetGame(prev) == [initialGameState EXCEPT !.mode = prev.mode]

\* ------------------------------------------------------- the timer effect
\* timer.count is the number of timeouts scheduled and neither fired nor
\* cleared; timer.isPlaying is the isPlaying their callback captured
NoTimer == [pending |-> FALSE, isPlaying |-> FALSE, count |-> 0]

\* a timeout fires once: what is left after one of `tmr` fired
afterFiring(tmr) == IF tmr.count > 1 THEN [tmr EXCEPT !.count = tmr.count - 1] ELSE NoTimer

\* dependencies [isPlaying, mode, handleComputerVsComputer]; the callback is
\* re-created exactly when isPlaying changes
depsChanged(old, new) == new.isPlaying # old.isPlaying \/ new.mode # old.mode

\* an effect without its cleanup: the old timeout is never cleared
useEffectTimerNoCleanup(old, new, tmr) ==
    IF ~depsChanged(old, new)
    THEN tmr
    ELSE IF new.mode = "computer-vs-computer" /\ new.isPlaying
         THEN [pending |-> TRUE, isPlaying |-> new.isPlaying, count |-> tmr.count + 1]
         ELSE tmr

\* an effect that forgets the mode test: a timeout in every mode while playing
useEffectTimerAnyMode(old, new, tmr) ==
    IF ~depsChanged(old, new)
    THEN tmr
    ELSE IF new.isPlaying
         THEN [pending |-> TRUE, isPlaying |-> new.isPlaying, count |-> 1]
         ELSE NoTimer

\* an effect that never schedules the timeout
useEffectTimerNeverSchedules(old, new, tmr) == NoTimer

\* useEffect: when a dependency changed, the cleanup of the previous run
\* clears its timeout, then the body schedules a new one in
\* computer-vs-computer mode while playing; the scheduled callback is the
\* handleComputerVsComputer of this render
useEffectTimer(old, new, tmr) ==
    IF ~depsChanged(old, new)
    THEN tmr
    ELSE IF new.mode = "computer-vs-computer" /\ new.isPlaying
         THEN [pending |-> TRUE, isPlaying |-> new.isPlaying, count |-> 1]
         ELSE NoTimer

\* ------------------------------------------------------ rendered controls
\* move buttons rendered whenever a round is being played, whatever the mode
showMoveButtonsAnyMode(s) == s.isPlaying

showMoveButtons(s) == s.mode = "human-vs-computer" /\ s.isPlaying

\* MOVES.map(move => <button ... onClick={() => handleHumanMove(move)}>)
moveButtons(s) == IF showMoveButtons(s) THEN MOVES ELSE <<>>

\* a start button rendered in every state
showStartButtonAlways(s) == TRUE

showStartButton(s) == ~s.isPlaying

\* {gameState.currentRound === 0 ? 'Inizia Partita' : 'Nuovo Round'}
startButtonLabel(s) == IF s.currentRound = 0 THEN "Inizia Partita" ELSE "Nuovo Round"

\* a reset button rendered in every state
showResetButtonAlways(s) == TRUE

showResetButton(s) == s.currentRound > 0

\* a pending indicator rendered while playing, whatever the mode
showPendingIndicatorAnyMode(s) == s.isPlaying

\* the "I computer stanno giocando..." block
showPendingIndicator(s) == s.mode = "computer-vs-computer" /\ s.isPlaying

\* a summary rendered only in human-vs-computer mode
showLastResultHumanOnly(s) == s.lastResult # undefined /\ s.mode = "human-vs-computer"

\* the "Ultimo Round" block: {gameState.lastResult && (...)}
showLastResult(s) == s.lastResult # undefined

MOVE_LABELS == [rock |-> "Sasso", paper |-> "Carta", scissors |-> "Forbice"]

getPlayerLabel(s, player) ==
    IF s.mode = "human-vs-computer"
    THEN (IF player = "player1" THEN "Umano" ELSE "Computer")
    ELSE (IF player = "player1" THEN "Computer 1" ELSE "Computer 2")

getResultMessage(s) ==
    IF s.lastResult = undefined
    THEN ""
    ELSE IF s.lastResult.winner = "tie"
         THEN "Pareggio!"
         ELSE getPlayerLabel(s, s.lastResult.winner) \o " vince!"

\* what the "Ultimo Round" block shows: both moves and the outcome
lastRoundSummary(s) ==
    IF showLastResult(s)
    THEN <<MOVE_LABELS[s.lastResult.player1Move],
           MOVE_LABELS[s.lastResult.player2Move],
           getResultMessage(s)>>
    ELSE <<>>

\* the rules of the game as the README and the test table give them
ReferenceTable ==
    [rock     |-> [rock |-> "tie",     paper |-> "player2", scissors |-> "player1"],
     paper    |-> [rock |-> "player1", paper |-> "tie",     scissors |-> "player2"],
     scissors |-> [rock |-> "player2", paper |-> "player1", scissors |-> "tie"]]

\* ----------------------------------------------------------------- events
\* lastEvent, history and roundAtStart are not state of the component:
\* lastEvent is the event handled last (with the state it found), history the
\* outcomes, by the rules of the game, of the rounds completed since the
\* session was last recreated, roundAtStart the round counter left by the
\* last start-round, change-mode or new-game

\* the functional updates of updateQueue applied in order to the state `s`
RECURSIVE applyUpdates(_, _)
applyUpdates(s, q) ==
    IF q = <<>>
    THEN s
    ELSE applyUpdates(handleComputerVsComputer(Head(q), s, Head(q).draws[1],
                                               Head(q).draws[2]),
                      Tail(q))

\* the outcomes, by the rules of the game, of the rounds waiting in a queue
queuedOutcomes(q) ==
    [i \in 1 .. Len(q) |->
        ReferenceTable[getRandomMove(q[i].draws[1])][getRandomMove(q[i].draws[2])]]

\* a render and commit: the queued updates are applied in order, then the
\* update of the event itself, which gives `new`; the effect runs on the
\* commit.  `draws` are the values Math.random() returned to the handler,
\* `completes` says that the event's own update is a completed round
Commit(op, args, draws, completes, new) ==
    /\ gameState' = new
    /\ rendered' = new
    /\ updateQueue' = <<>>
    /\ timer' = useEffectTimer(rendered, new, timer)
    /\ lastEvent' = [op |-> op, args |-> args, draws |-> draws, prev |-> gameState,
                     flushed |-> Len(updateQueue),
                     timerCleared |-> (timer.pending /\ depsChanged(rendered, new))]
    /\ history' =
          IF op \in {"changeMode", "newGame"}
          THEN <<>>
          ELSE IF completes
               THEN Append(history \o queuedOutcomes(updateQueue),
                           ReferenceTable[args[1]][args[2]])
               ELSE history \o queuedOutcomes(updateQueue)
    /\ roundAtStart' =
          IF op \in {"startRound", "changeMode", "newGame"}
          THEN new.currentRound
          ELSE roundAtStart

\* a handler that returns at its guard: no Math.random(), no setGameState,
\* no render; `tmr` is what is left of the timeouts (the one that called the
\* handler is spent)
Ignored(op, args, tmr) ==
    /\ timer' = tmr
    /\ lastEvent' = [op |-> op, args |-> args, draws |-> <<>>, prev |-> gameState,
                     flushed |-> 0, timerCleared |-> FALSE]
    /\ UNCHANGED <<gameState, rendered, updateQueue, history, roundAtStart>>

Init ==
    /\ gameState = initialGameState
    /\ rendered = initialGameState
    /\ updateQueue = <<>>
    /\ timer = NoTimer
    /\ lastEvent = [op |-> "init", args |-> <<>>, draws |-> <<>>,
                    prev |-> initialGameState, flushed |-> 0,
                    timerCleared |-> FALSE]
    /\ history = <<>>
    /\ roundAtStart = 0

\* the state a functional update of the next event is applied to
latest == applyUpdates(gameState, updateQueue)

ClickModeButton ==
    \E mode \in GameMode :
        Commit("changeMode", <<mode>>, <<>>, FALSE, handleModeChange(latest, mode))

ClickStartButton ==
    /\ showStartButton(rendered)
    /\ gameState.currentRound < MaxRounds
    /\ Commit("startRound", <<>>, <<>>, FALSE, startNewRound(latest))

ClickMoveButton ==
    /\ showMoveButtons(rendered)
    /\ \E i \in DOMAIN moveButtons(rendered), r \in RandomValues :
          LET move == moveButtons(rendered)[i]
          IN  Commit("humanMove", <<move, getRandomMove(r)>>, <<r>>, TRUE,
                     handleHumanMove(rendered, latest, move, r))

ClickResetButton ==
    /\ showResetButton(rendered)
    /\ Commit("newGame", <<>>, <<>>, FALSE, resetGame(latest))

\* the callback of the timeout: it samples the two moves, enqueues the
\* update and returns to the event loop; nothing is rendered in this step
TimerFires ==
    /\ timer.pending
    /\ IF ~timer.isPlaying
       THEN Ignored("timeout", <<>>, afterFiring(timer))
       ELSE \E r1 \in RandomValues, r2 \in RandomValues :
               /\ updateQueue' = Append(updateQueue,
                                        [isPlaying |-> timer.isPlaying,
                                         draws |-> <<r1, r2>>])
               /\ timer' = afterFiring(timer)
               /\ lastEvent' = [op |-> "timeout",
                                args |-> <<getRandomMove(r1), getRandomMove(r2)>>,
                                draws |-> <<r1, r2>>, prev |-> gameState,
                                flushed |-> 0, timerCleared |-> FALSE]
               /\ UNCHANGED <<gameState, rendered, history, roundAtStart>>

\* the scheduler task that renders the update a timeout callback enqueued
RenderQueued ==
    /\ updateQueue # <<>>
    /\ LET u == updateQueue[Len(updateQueue)]
       IN  Commit("timerFire",
                  <<getRandomMove(u.draws[1]), getRandomMove(u.draws[2])>>,
                  u.draws, FALSE, latest)

Next ==
    \/ ClickModeButton
    \/ ClickStartButton
    \/ ClickMoveButton
    \/ ClickResetButton
    \/ TimerFires
    \/ RenderQueued

Spec == Init /\ [][Next]_vars

\* a timeout that is not cleared fires after its delay, and the task that
\* renders a queued update runs
FairSpec == Spec /\ WF_vars(TimerFires) /\ WF_vars(RenderQueued)

\* ================================================================ claims
Zero(s) ==
    /\ s.currentRound = 0
    /\ s.scores.player1 = 0
    /\ s.scores.player2 = 0
    /\ s.scores.ties = 0

hasResult(s) == s.lastResult # undefined

completedRound == lastEvent.op \in {"humanMove", "timerFire"}

\* C1: determineWinner agrees with the reference table on all 9 ordered pairs
\* of moves, and so does the winner of every result a round has stored.
C1_WinnerMatchesTable ==
    /\ \A a \in Move, b \in Move : determineWinner(a, b) = ReferenceTable[a][b]
    /\ hasResult(gameState) =>
          gameState.lastResult.winner =
             ReferenceTable[gameState.lastResult.player1Move]
                           [gameState.lastResult.player2Move]

\* a round resolved paper against scissors: the second side won
C1_Witness ==
    /\ completedRound
    /\ gameState.lastResult =
          [winner |-> "player2", player1Move |-> "paper", player2Move |-> "scissors"]

\* C2: a timeout is pending only against the session that scheduled it
\* (computer-vs-computer, playing); a change-mode or new-game that finds one
\* pending cancels it, and one that comes after the delay elapsed finds the
\* round of the fired timeout queued and applies it before the reset; either
\* way nothing is pending or queued afterwards, and after a reset the
\* counters stay 0, the last result stays empty and playing stays false
\* until the next start-round.
C2_TimerOnlyWhilePlaying ==
    timer.pending =>
        (gameState.mode = "computer-vs-computer" /\ gameState.isPlaying)

C2_ResetCancelsTimer ==
    (lastEvent.op \in {"changeMode", "newGame"}
       /\ lastEvent.prev.mode = "computer-vs-computer" /\ lastEvent.prev.isPlaying) =>
        /\ ~timer.pending
        /\ updateQueue = <<>>
        /\ lastEvent.timerCleared <=> (lastEvent.flushed = 0)

C2_FreshSession(s) == Zero(s) /\ ~hasResult(s) /\ ~s.isPlaying

C2_StaysFresh ==
    (C2_FreshSession(gameState) /\ lastEvent'.op # "startRound") =>
        C2_FreshSession(gameState')

C2_CancelledOnReset ==
    /\ [](C2_TimerOnlyWhilePlaying /\ C2_ResetCancelsTimer)
    /\ [][C2_StaysFresh]_vars

\* the mode was switched while the computers were playing: the timeout is gone
C2_Witness ==
    /\ lastEvent.op = "changeMode"
    /\ lastEvent.prev.mode = "computer-vs-computer"
    /\ lastEvent.prev.isPlaying
    /\ lastEvent.timerCleared
    /\ gameState.mode = "human-vs-computer"
    /\ C2_FreshSession(gameState)

\* C3: in every reachable state the three score counters add up to the round
\* counter.
C3_ScoresSumToRound ==
    gameState.scores.player1 + gameState.scores.player2 + gameState.scores.ties
        = gameState.currentRound

\* two rounds played, one tied and one won by the first side
C3_Witness ==
    /\ gameState.currentRound = 2
    /\ gameState.scores.ties = 1
    /\ gameState.scores.player1 = 1

Inc(b) == IF b THEN 1 ELSE 0

\* C4: a completed round (human move, or timeout firing) adds exactly 1 to the
\* round counter and exactly 1 to the score counter of the round's outcome,
\* leaves the other two counters alone, stores the new result and ends Playing.
C4_RoundCompletion ==
    completedRound =>
        LET p == lastEvent.prev
            s == gameState
            result == playRound(lastEvent.args[1], lastEvent.args[2])
            w == ReferenceTable[lastEvent.args[1]][lastEvent.args[2]]
        IN  /\ s.currentRound = p.currentRound + 1
            /\ s.scores.player1 = p.scores.player1 + Inc(w = "player1")
            /\ s.scores.player2 = p.scores.player2 + Inc(w = "player2")
            /\ s.scores.ties = p.scores.ties + Inc(w = "tie")
            /\ s.lastResult = result
            /\ s.lastResult.winner = w
            /\ ~s.isPlaying
            /\ s.mode = p.mode

\* the timeout fired on a tie in a session that already had a round
C4_Witness ==
    /\ lastEvent.op = "timerFire"
    /\ lastEvent.prev.currentRound = 1
    /\ gameState.lastResult.winner = "tie"
    /\ gameState.scores.ties = lastEvent.prev.scores.ties + 1

\* C5: change-mode, from any state, gives Idle with the round counter and the
\* three scores at 0, no last result, and the selected mode.
C5_ChangeModeResets ==
    lastEvent.op = "changeMode" =>
        /\ ~gameState.isPlaying
        /\ Zero(gameState)
        /\ ~hasResult(gameState)
        /\ gameState.mode = lastEvent.args[1]

\* the mode was changed in the middle of a round of a session with a score
C5_Witness ==
    /\ lastEvent.op = "changeMode"
    /\ lastEvent.prev.isPlaying
    /\ lastEvent.prev.currentRound > 0
    /\ lastEvent.prev.mode # gameState.mode
    /\ Zero(gameState)

\* C6: new-game, from any state, gives Idle with the round counter and the
\* three scores at 0, no last result, and the mode it had.
C6_NewGameResets ==
    lastEvent.op = "newGame" =>
        /\ ~gameState.isPlaying
        /\ Zero(gameState)
        /\ ~hasResult(gameState)
        /\ gameState.mode = lastEvent.prev.mode

\* new-game in computer-vs-computer mode, once from Idle with a result shown
C6_Witness ==
    /\ lastEvent.op = "newGame"
    /\ lastEvent.prev.mode = "computer-vs-computer"
    /\ hasResult(lastEvent.prev)
    /\ lastEvent.prev.currentRound = 2
    /\ gameState.mode = "computer-vs-computer"
    /\ Zero(gameState)

NonDecreasing(p, s) ==
    /\ s.currentRound >= p.currentRound
    /\ s.scores.player1 >= p.scores.player1
    /\ s.scores.player2 >= p.scores.player2
    /\ s.scores.ties >= p.scores.ties

\* C7 as stated: the counters never decrease from one state to the next except
\* by being reset together to zero, and only the new-game action resets them.
C7_OnlyNewGameResets ==
    \/ NonDecreasing(lastEvent.prev, gameState)
    \/ (Zero(gameState) /\ lastEvent.op = "newGame")

\* C7 amended: the counters never decrease from one state to the next except
\* by being reset together to zero, and the only transitions that reset them
\* are new-game and change-mode.
C7_OnlyResetsDecrease ==
    \/ NonDecreasing(lastEvent.prev, gameState)
    \/ (Zero(gameState) /\ lastEvent.op \in {"newGame", "changeMode"})

\* a new-game that took a session with two counters above zero back to zero
C7_Witness ==
    /\ lastEvent.op = "newGame"
    /\ lastEvent.prev.scores.player1 > 0
    /\ lastEvent.prev.scores.player2 > 0
    /\ Zero(gameState)

\* C8: in human-vs-computer mode while Playing, the human's choice m completes
\* the round at once with result {determineWinner(m, c), m, c} for the sampled
\* computer move c, and Playing ends; from the initial session, start-round and
\* then rock against scissors gives round 1, first score 1 and the result
\* {player1, rock, scissors}.
C8_HumanMoveCompletes ==
    (lastEvent.op = "humanMove"
       /\ lastEvent.prev.mode = "human-vs-computer" /\ lastEvent.prev.isPlaying) =>
        LET m == lastEvent.args[1]
            c == lastEvent.args[2]
        IN  /\ gameState.lastResult =
                  [winner |-> ReferenceTable[m][c], player1Move |-> m, player2Move |-> c]
            /\ gameState.lastResult.winner = determineWinner(m, c)
            /\ ~gameState.isPlaying
            /\ (lastEvent.prev = startNewRound(initialGameState)
                  /\ m = "rock" /\ c = "scissors") =>
                   /\ gameState.currentRound = 1
                   /\ gameState.scores.player1 = 1
                   /\ gameState.lastResult =
                         [winner |-> "player1", player1Move |-> "rock",
                          player2Move |-> "scissors"]

\* the scenario: first round of the initial session, rock against scissors
C8_Witness ==
    /\ lastEvent.op = "humanMove"
    /\ lastEvent.prev = startNewRound(initialGameState)
    /\ lastEvent.args = <<"rock", "scissors">>
    /\ gameState.currentRound = 1
    /\ gameState.scores = [player1 |-> 1, player2 |-> 0, ties |-> 0]

\* C9: in computer-vs-computer mode, once a round is started with the round
\* counter at n, either a change-mode or new-game intervenes or the timeout
\* eventually fires: the session is Idle again with a last result and the
\* round counter at n + 1.
C9_AutoResolutionFires ==
    \A n \in 0 .. MaxRounds :
        (gameState.mode = "computer-vs-computer" /\ gameState.isPlaying
           /\ gameState.currentRound = n)
        ~> (\/ lastEvent.op \in {"changeMode", "newGame"}
            \/ (/\ lastEvent.op = "timerFire"
                /\ ~gameState.isPlaying
                /\ hasResult(gameState)
                /\ gameState.mode = "computer-vs-computer"
                /\ gameState.currentRound = n + 1))

\* the timeout fired on the round that was started
C9_Witness ==
    /\ lastEvent.op = "timerFire"
    /\ lastEvent.prev.mode = "computer-vs-computer"
    /\ lastEvent.prev.isPlaying
    /\ ~gameState.isPlaying
    /\ hasResult(gameState)
    /\ gameState.currentRound = lastEvent.prev.currentRound + 1

Flip(w) == CASE w = "player1" -> "player2"
             [] w = "player2" -> "player1"
             [] OTHER -> w

\* C10: swapping the arguments of determineWinner flips player1/player2 and
\* keeps tie: the two calls are never both player1 and never both player2, for
\* every ordered pair and for the moves of every stored result.
C10_SwapFlipsWinner ==
    /\ \A a \in Move, b \in Move :
          /\ determineWinner(b, a) = Flip(determineWinner(a, b))
          /\ ~(determineWinner(a, b) = "player1" /\ determineWinner(b, a) = "player1")
          /\ ~(determineWinner(a, b) = "player2" /\ determineWinner(b, a) = "player2")
    /\ hasResult(gameState) =>
          determineWinner(gameState.lastResult.player2Move,
                          gameState.lastResult.player1Move)
             = Flip(gameState.lastResult.winner)

\* a stored result the first side won; swapped, the second side wins
C10_Witness ==
    /\ completedRound
    /\ gameState.lastResult.winner = "player1"
    /\ gameState.lastResult.player1Move = "scissors"
    /\ determineWinner(gameState.lastResult.player2Move,
                       gameState.lastResult.player1Move) = "player2"

\* C11: determineWinner(x, x) is tie for each of the three moves, and every
\* stored result of two equal moves is a tie.
C11_EqualMovesTie ==
    /\ \A x \in {"rock", "paper", "scissors"} : determineWinner(x, x) = "tie"
    /\ (hasResult(gameState)
          /\ gameState.lastResult.player1Move = gameState.lastResult.player2Move) =>
          gameState.lastResult.winner = "tie"

\* a round in which both sides played paper
C11_Witness ==
    /\ completedRound
    /\ gameState.lastResult =
          [winner |-> "tie", player1Move |-> "paper", player2Move |-> "paper"]

\* the beats-relation the table encodes
beats(a, b) == includes(winConditions[a], b)

NamedBeats == {<<"rock", "scissors">>, <<"scissors", "paper">>, <<"paper", "rock">>}

\* C12: on distinct moves the beats-relation of winConditions is total and
\* antisymmetric: exactly one of a-beats-b and b-beats-a holds, and the one
\* that holds is rock-beats-scissors, scissors-beats-paper or paper-beats-rock;
\* no move beats itself, and the winner of a stored non-tie is the side whose
\* move beats the other's.
C12_BeatsTotalAntisymmetric ==
    /\ \A a \in Move, b \in Move :
          /\ (a # b) => (beats(a, b) /\ ~beats(b, a)) \/ (beats(b, a) /\ ~beats(a, b))
          /\ beats(a, b) <=> (<<a, b>> \in NamedBeats)
    /\ (hasResult(gameState)
          /\ gameState.lastResult.player1Move # gameState.lastResult.player2Move) =>
          LET a == gameState.lastResult.player1Move
              b == gameState.lastResult.player2Move
          IN  /\ (gameState.lastResult.winner = "player1") <=> (<<a, b>> \in NamedBeats)
              /\ (gameState.lastResult.winner = "player2") <=> (<<b, a>> \in NamedBeats)

\* a round of rock against paper: paper beats rock, the second side won
C12_Witness ==
    /\ completedRound
    /\ gameState.lastResult.player1Move = "rock"
    /\ gameState.lastResult.player2Move = "paper"
    /\ beats("paper", "rock")
    /\ gameState.lastResult.winner = "player2"

\* C13: the session starts Idle: not playing, round counter and the three
\* scores at 0, no last result, human-vs-computer mode, and no timeout pending.
C13_InitialSession ==
    lastEvent.op = "init" =>
        /\ ~gameState.isPlaying
        /\ gameState.currentRound = 0
        /\ gameState.scores = [player1 |-> 0, player2 |-> 0, ties |-> 0]
        /\ gameState.lastResult = undefined
        /\ gameState.mode = "human-vs-computer"
        /\ ~timer.pending

\* the state right after construction, the start control on display
C13_Witness ==
    /\ lastEvent.op = "init"
    /\ gameState.mode = "human-vs-computer"
    /\ showStartButton(rendered)
    /\ ~showResetButton(rendered)

\* C14: start-round takes the session from Idle to Playing and clears the
\* last result.
C14_StartRound ==
    lastEvent.op = "startRound" =>
        /\ ~lastEvent.prev.isPlaying
        /\ gameState.isPlaying
        /\ gameState.lastResult = undefined

\* a round started while the result of the previous one was on display
C14_Witness ==
    /\ lastEvent.op = "startRound"
    /\ lastEvent.prev.lastResult # undefined
    /\ lastEvent.prev.currentRound > 0
    /\ gameState.isPlaying
    /\ gameState.lastResult = undefined

\* C15: playRound(a, b) is the record {winner: determineWinner(a, b),
\* player1Move: a, player2Move: b} for every pair of moves, and the result a
\* completed round stores carries the two moves of that round in that order.
C15_PlayRoundRecord ==
    /\ \A a \in Move, b \in Move :
          /\ playRound(a, b).player1Move = a
          /\ playRound(a, b).player2Move = b
          /\ playRound(a, b).winner = determineWinner(a, b)
          /\ DOMAIN playRound(a, b) = {"winner", "player1Move", "player2Move"}
    /\ completedRound =>
          /\ gameState.lastResult.player1Move = lastEvent.args[1]
          /\ gameState.lastResult.player2Move = lastEvent.args[2]

\* the computers played scissors against rock
C15_Witness ==
    /\ lastEvent.op = "timerFire"
    /\ lastEvent.args = <<"scissors", "rock">>
    /\ gameState.lastResult.player1Move = "scissors"
    /\ gameState.lastResult.player2Move = "rock"

\* the move the thirds of [0, 1) stand for: a draw r / RandomSteps below 1/3 is
\* rock, below 2/3 paper, otherwise scissors
ThirdOf(r) ==
    IF 3 * r < RandomSteps THEN "rock"
    ELSE IF 3 * r < 2 * RandomSteps THEN "paper"
    ELSE "scissors"

\* C16: for every value r in [0, 1) of Math.random(), floor(3r) is an index of
\* MOVES and getRandomMove returns MOVES[floor(3r)], a member of
\* [rock, paper, scissors]; r = 0 gives rock, r = 0.4 paper and r = 0.8
\* scissors; and every move a handler sampled is the move of its draw.
C16_RandomMoveInRange ==
    /\ MOVES = <<"rock", "paper", "scissors">>
    /\ \A r \in RandomValues :
          /\ (r * Len(MOVES)) \div RandomSteps \in 0 .. (Len(MOVES) - 1)
          /\ getRandomMove(r) \in {"rock", "paper", "scissors"}
          /\ getRandomMove(r) = ThirdOf(r)
          /\ (r = 0) => getRandomMove(r) = "rock"
          /\ (10 * r = 4 * RandomSteps) => getRandomMove(r) = "paper"
          /\ (10 * r = 8 * RandomSteps) => getRandomMove(r) = "scissors"
    /\ (lastEvent.op = "humanMove") =>
          lastEvent.args[2] = ThirdOf(lastEvent.draws[1])
    /\ (lastEvent.op \in {"timeout", "timerFire"}) =>
          /\ lastEvent.args[1] = ThirdOf(lastEvent.draws[1])
          /\ lastEvent.args[2] = ThirdOf(lastEvent.draws[2])
    /\ completedRound =>
          gameState.lastResult.player2Move = ThirdOf(lastEvent.draws[Len(lastEvent.draws)])

\* the computers drew 0 and the largest value below 1: rock against scissors
C16_Witness ==
    /\ lastEvent.op = "timerFire"
    /\ lastEvent.draws = <<0, RandomSteps - 1>>
    /\ gameState.lastResult.player1Move = "rock"
    /\ gameState.lastResult.player2Move = "scissors"

\* C17: a human move made while the session is not Playing has no effect:
\* whenever the session is not Playing, the handleHumanMove of the render on
\* screen returns mode, round counter, scores, last result and isPlaying as
\* they are, for every move and every draw; no move control is on display
\* then, and no human move is ever handled from a state that is not Playing.
C17_MoveWhileIdleIgnored ==
    /\ ~gameState.isPlaying =>
          /\ ~showMoveButtons(rendered)
          /\ \A move \in Move, r \in RandomValues :
                handleHumanMove(rendered, latest, move, r) = latest
    /\ (lastEvent.op = "humanMove") => lastEvent.prev.isPlaying

\* Idle with the result of the first human round on display: a further move
\* through the handler of this render changes nothing
C17_Witness ==
    /\ gameState.mode = "human-vs-computer"
    /\ ~gameState.isPlaying
    /\ gameState.currentRound = 1
    /\ gameState.lastResult # undefined
    /\ lastEvent.op = "humanMove"
    /\ handleHumanMove(rendered, gameState, "rock", RandomSteps - 1) = gameState

\* how many rounds of the history had the outcome w
Won(w) ==
    Cardinality({i \in 1 .. Len(history) : history[i] = w})

\* C18: each score counter equals the number of rounds completed since the
\* last reset that had its outcome; three rounds in a row won by the human
\* give a human score of 3.
C18_ScoresCountOutcomes ==
    /\ gameState.scores.player1 = Won("player1")
    /\ gameState.scores.player2 = Won("player2")
    /\ gameState.scores.ties = Won("tie")
    /\ gameState.currentRound = Len(history)

\* three start-round / human-move cycles, each won by the human with rock
C18_Witness ==
    /\ gameState.mode = "human-vs-computer"
    /\ history = <<"player1", "player1", "player1">>
    /\ lastEvent.op = "humanMove"
    /\ lastEvent.args = <<"rock", "scissors">>
    /\ gameState.scores.player1 = 3

\* C19: the start/continue control is on display exactly when isPlaying is
\* false, so no start-round happens while Playing; its label is the
\* first-round label at round 0 and the subsequent-round label after.
C19_StartControl ==
    /\ showStartButton(rendered) <=> ~gameState.isPlaying
    /\ (lastEvent.op = "startRound") => ~lastEvent.prev.isPlaying
    /\ (gameState.currentRound = 0) => startButtonLabel(rendered) = "Inizia Partita"
    /\ (gameState.currentRound > 0) => startButtonLabel(rendered) = "Nuovo Round"

\* Idle after the first round: the control is shown with the subsequent label
C19_Witness ==
    /\ ~gameState.isPlaying
    /\ gameState.currentRound = 1
    /\ showStartButton(rendered)
    /\ startButtonLabel(rendered) = "Nuovo Round"

\* C20: the move-choice controls, one per move of MOVES, are on display
\* exactly when the mode is human-vs-computer and isPlaying is true; no human
\* move ever happens in computer-vs-computer mode or outside Playing.
C20_MoveControls ==
    /\ showMoveButtons(rendered) <=>
          (gameState.mode = "human-vs-computer" /\ gameState.isPlaying)
    /\ moveButtons(rendered) =
          IF gameState.mode = "human-vs-computer" /\ gameState.isPlaying
          THEN <<"rock", "paper", "scissors">>
          ELSE <<>>
    /\ (lastEvent.op = "humanMove") =>
          (lastEvent.prev.mode = "human-vs-computer" /\ lastEvent.prev.isPlaying)
    /\ (gameState.mode = "computer-vs-computer") => lastEvent.op # "humanMove"

\* the computers are playing their second round: no move control is shown
C20_Witness ==
    /\ gameState.mode = "computer-vs-computer"
    /\ gameState.isPlaying
    /\ gameState.currentRound = 1
    /\ ~showMoveButtons(rendered)
    /\ moveButtons(rendered) = <<>>

\* C21 as stated: whenever the round counter is above 0 the last-round
\* summary is on display.
C21_SummaryWheneverRoundPositive ==
    (gameState.currentRound > 0) => showLastResult(rendered)

\* the message the outcome of a round calls for, by the rules of the game
ExpectedMessage(mode, a, b) ==
    CASE ReferenceTable[a][b] = "tie" -> "Pareggio!"
      [] ReferenceTable[a][b] = "player1" /\ mode = "human-vs-computer" -> "Umano vince!"
      [] ReferenceTable[a][b] = "player2" /\ mode = "human-vs-computer" -> "Computer vince!"
      [] ReferenceTable[a][b] = "player1" /\ mode = "computer-vs-computer" -> "Computer 1 vince!"
      [] ReferenceTable[a][b] = "player2" /\ mode = "computer-vs-computer" -> "Computer 2 vince!"

\* C21 amended: whenever the round counter is above 0 and the session is not
\* Playing, the last-round summary is on display with both moves and the
\* outcome; while Playing no summary is shown.
C21_SummaryWhenIdleAfterRound ==
    /\ (gameState.currentRound > 0 /\ ~gameState.isPlaying) =>
          /\ showLastResult(rendered)
          /\ completedRound =>
                lastRoundSummary(rendered) =
                   <<MOVE_LABELS[lastEvent.args[1]], MOVE_LABELS[lastEvent.args[2]],
                     ExpectedMessage(gameState.mode, lastEvent.args[1], lastEvent.args[2])>>
    /\ gameState.isPlaying => ~showLastResult(rendered)

\* the second computer won the second round with scissors against paper
C21_Witness ==
    /\ gameState.currentRound = 2
    /\ ~gameState.isPlaying
    /\ lastRoundSummary(rendered) = <<"Carta", "Forbice", "Computer 2 vince!">>

\* C22: the reset control is on display exactly when the round counter is
\* above 0, Idle or Playing; new-game never happens at round 0.
C22_ResetControl ==
    /\ showResetButton(rendered) <=> (gameState.currentRound > 0)
    /\ (lastEvent.op = "newGame") => lastEvent.prev.currentRound > 0

\* new-game triggered in the middle of a round
C22_Witness ==
    /\ lastEvent.op = "newGame"
    /\ lastEvent.prev.isPlaying
    /\ lastEvent.prev.currentRound = 1
    /\ showResetButton(lastEvent.prev)
    /\ ~showResetButton(rendered)

\* C23: the pending indicator is on display exactly when the mode is
\* computer-vs-computer and isPlaying is true; it is never shown together with
\* the move buttons, the start button or a last-round summary.
C23_PendingIndicator ==
    /\ showPendingIndicator(rendered) <=>
          (gameState.mode = "computer-vs-computer" /\ gameState.isPlaying)
    /\ showPendingIndicator(rendered) =>
          /\ ~showMoveButtons(rendered)
          /\ ~showStartButton(rendered)
          /\ ~showLastResult(rendered)
    /\ (gameState.mode = "human-vs-computer") => ~showPendingIndicator(rendered)

\* the computers are playing their third round
C23_Witness ==
    /\ showPendingIndicator(rendered)
    /\ gameState.mode = "computer-vs-computer"
    /\ gameState.isPlaying
    /\ gameState.currentRound = 2
    /\ lastEvent.op = "startRound"

Result(a, b) == [winner |-> ReferenceTable[a][b], player1Move |-> a, player2Move |-> b]

\* C24: the moves of a round are sampled independently: whenever the timeout
\* is pending each of the 9 ordered pairs is a result its firing can store,
\* and whenever the move buttons are shown each of the 9 pairs is a result a
\* click can store, whatever the human chose.
C24_AllPairsPossible ==
    /\ timer.pending =>
          \A a \in Move, b \in Move :
             \E r1 \in RandomValues, r2 \in RandomValues :
                handleComputerVsComputer(timer, gameState, r1, r2).lastResult
                   = Result(a, b)
    /\ showMoveButtons(rendered) =>
          \A a \in Move, b \in Move :
             \E i \in DOMAIN moveButtons(rendered), r \in RandomValues :
                /\ moveButtons(rendered)[i] = a
                /\ handleHumanMove(rendered, gameState, a, r).lastResult = Result(a, b)

\* the computers drew different values: scissors against paper is stored
C24_Witness ==
    /\ lastEvent.op = "timerFire"
    /\ lastEvent.draws[1] # lastEvent.draws[2]
    /\ gameState.mode = "computer-vs-computer"
    /\ gameState.lastResult = Result("scissors", "paper")

\* C25: a start-round is followed by at most one completed round: until the
\* next start-round the round counter, also with the update a fired timeout
\* has queued counted in, is at most 1 above its value at the start; a round
\* is completed only from Playing and ends Playing; while the update of a
\* fired timeout waits for its render no move or start control is on
\* display; and after a completion no timeout is pending and a move issued
\* again through the render on screen is ignored.
C25_OneRoundPerStart ==
    /\ gameState.currentRound <= roundAtStart + 1
    /\ gameState.currentRound >= roundAtStart
    /\ latest.currentRound <= roundAtStart + 1
    /\ gameState.isPlaying => gameState.currentRound = roundAtStart
    /\ completedRound =>
          /\ lastEvent.prev.isPlaying
          /\ ~gameState.isPlaying
          /\ gameState.currentRound = lastEvent.prev.currentRound + 1
          /\ ~timer.pending
          /\ updateQueue = <<>>
          /\ \A move \in Move, r \in RandomValues :
                handleHumanMove(rendered, latest, move, r) = latest
    /\ (updateQueue # <<>>) =>
          /\ ~showMoveButtons(rendered)
          /\ ~showStartButton(rendered)

\* the timeout of the second start fired and its round was rendered: one
\* round for that start, nothing pending or queued
C25_Witness ==
    /\ lastEvent.op = "timerFire"
    /\ lastEvent.flushed = 1
    /\ roundAtStart = 1
    /\ gameState.currentRound = 2
    /\ ~timer.pending
    /\ updateQueue = <<>>

ComputersPlaying(s) == s.mode = "computer-vs-computer" /\ s.isPlaying

\* C26 as stated: at most one timeout is pending; one is pending if and only
\* if the mode is computer-vs-computer and isPlaying is true; and every
\* transition that leaves that condition destroys it: it has fired (round
\* completion) or the effect's cleanup cleared it (change-mode, new-game).
C26_OneTimerIffComputersPlaying ==
    /\ timer.count <= 1
    /\ timer.pending <=> (timer.count = 1)
    /\ timer.pending <=> ComputersPlaying(gameState)
    /\ (ComputersPlaying(lastEvent.prev) /\ ~ComputersPlaying(gameState)) =>
          /\ timer = NoTimer
          /\ lastEvent.op \in {"timerFire", "changeMode", "newGame"}
          /\ (lastEvent.op = "timerFire") <=> ~lastEvent.timerCleared

\* C26 amended: at most one timeout is pending; one is pending only if the
\* mode is computer-vs-computer and isPlaying is true; while that holds
\* either the timeout is pending or it has fired and the round it enqueued
\* is waiting for its render, never both and never more than one round; and
\* every transition that leaves the condition finds the timeout fired (round
\* completion, or a reset that applies the queued round first) or clears it
\* in the effect's cleanup (change-mode, new-game).
C26_OneTimerWhileComputersPlaying ==
    /\ timer.count <= 1
    /\ timer.pending <=> (timer.count = 1)
    /\ timer.pending => ComputersPlaying(gameState)
    /\ (updateQueue # <<>>) => ComputersPlaying(gameState)
    /\ ComputersPlaying(gameState) => (timer.pending \/ updateQueue # <<>>)
    /\ ~(timer.pending /\ updateQueue # <<>>)
    /\ Len(updateQueue) <= 1
    /\ (ComputersPlaying(lastEvent.prev) /\ ~ComputersPlaying(gameState)) =>
          /\ timer = NoTimer
          /\ updateQueue = <<>>
          /\ lastEvent.op \in {"timerFire", "changeMode", "newGame"}
          /\ lastEvent.timerCleared <=> (lastEvent.flushed = 0)
          /\ (lastEvent.op = "timerFire") => lastEvent.flushed = 1

\* the timeout has fired and its round is not rendered yet: the computers
\* are still shown playing and no timeout is pending
C26_Witness ==
    /\ lastEvent.op = "timeout"
    /\ ComputersPlaying(gameState)
    /\ gameState.currentRound = 1
    /\ showPendingIndicator(rendered)
    /\ ~timer.pending
    /\ Len(updateQueue) = 1

\* C27: while Playing there is no last result; a last result implies Idle and
\* a round counter of at least 1; and Idle with a round counter of at least 1
\* implies a last result.
C27_ResultIffIdleAfterRound ==
    /\ gameState.isPlaying => gameState.lastResult = undefined
    /\ (gameState.lastResult # undefined) =>
          (~gameState.isPlaying /\ gameState.currentRound >= 1)
    /\ (~gameState.isPlaying /\ gameState.currentRound >= 1) =>
          gameState.lastResult # undefined

\* Idle with the result of the third round of the session
C27_Witness ==
    /\ ~gameState.isPlaying
    /\ gameState.currentRound = 3
    /\ gameState.lastResult # undefined
    /\ lastEvent.prev.isPlaying
    /\ lastEvent.prev.lastResult = undefined

WellFormedResult(res) ==
    /\ res.player1Move \in Move
    /\ res.player2Move \in Move
    /\ res.winner \in {"player1", "player2", "tie"}

\* C28: a last result, when present, is a whole record whose winner is
\* determineWinner of its two moves; from one state to the next the stored
\* result is kept as it is, cleared, or replaced by the result of the round
\* just completed.
C28_StoredResultConsistent ==
    /\ (gameState.lastResult # undefined) =>
          /\ WellFormedResult(gameState.lastResult)
          /\ gameState.lastResult.winner =
                determineWinner(gameState.lastResult.player1Move,
                                gameState.lastResult.player2Move)
    /\ \/ gameState.lastResult = lastEvent.prev.lastResult
       \/ gameState.lastResult = undefined
       \/ /\ completedRound
          /\ lastEvent.prev.isPlaying
          /\ gameState.lastResult.player1Move = lastEvent.args[1]
          /\ gameState.lastResult.player2Move = lastEvent.args[2]
          /\ gameState.lastResult.winner =
                determineWinner(lastEvent.args[1], lastEvent.args[2])

\* the result of the first round was cleared by the second start-round and
\* the second human round stored a new one as a whole
C28_Witness ==
    /\ lastEvent.op = "humanMove"
    /\ lastEvent.prev.lastResult = undefined
    /\ lastEvent.prev.currentRound = 1
    /\ gameState.lastResult =
          [winner |-> "player2", player1Move |-> "scissors", player2Move |-> "rock"]

\* C29: start-round leaves the mode, the round counter and the three scores
\* as they were; only isPlaying and the last result change.
C29_StartRoundFrame ==
    (lastEvent.op = "startRound") =>
        /\ gameState.mode = lastEvent.prev.mode
        /\ gameState.currentRound = lastEvent.prev.currentRound
        /\ gameState.scores = lastEvent.prev.scores
        /\ gameState = [lastEvent.prev EXCEPT !.isPlaying = gameState.isPlaying,
                                             !.lastResult = gameState.lastResult]

\* the third computer round started on a session with two scores above zero
C29_Witness ==
    /\ lastEvent.op = "startRound"
    /\ gameState.mode = "computer-vs-computer"
    /\ gameState.currentRound = 2
    /\ gameState.scores = [player1 |-> 1, player2 |-> 0, ties |-> 1]
    /\ gameState.scores = lastEvent.prev.scores

\* C30: the mode changes only through change-mode: start-round, a human move,
\* the firing of the timeout and new-game leave it as it was.
C30_ModeOnlyByChangeMode ==
    /\ (lastEvent.op # "changeMode") => gameState.mode = lastEvent.prev.mode
    /\ (gameState.mode # lastEvent.prev.mode) =>
          (lastEvent.op = "changeMode" /\ gameState.mode = lastEvent.args[1])

\* the timeout fired in computer-vs-computer mode and the mode is still that
C30_Witness ==
    /\ lastEvent.op = "timerFire"
    /\ lastEvent.prev.mode = "computer-vs-computer"
    /\ gameState.mode = "computer-vs-computer"
    /\ gameState.currentRound = 1
    /\ gameState.lastResult.winner = "player1"

OtherMode(mode) ==
    IF mode = "human-vs-computer" THEN "computer-vs-computer" ELSE "human-vs-computer"

\* C31: selecting the mode that is already active resets the session exactly
\* as a change to the other mode does (Idle, round counter and scores at 0, no
\* last result), the mode staying what it was; in computer-vs-computer mode
\* while Playing it cancels the pending timeout (when the timeout has fired
\* already, its queued round is applied first and reset with the rest).
C31_SameModeResets ==
    (lastEvent.op = "changeMode" /\ lastEvent.args[1] = lastEvent.prev.mode) =>
        /\ ~gameState.isPlaying
        /\ gameState.currentRound = 0
        /\ gameState.scores = [player1 |-> 0, player2 |-> 0, ties |-> 0]
        /\ gameState.lastResult = undefined
        /\ gameState.mode = lastEvent.prev.mode
        /\ [gameState EXCEPT !.mode = OtherMode(lastEvent.prev.mode)]
              = handleModeChange(lastEvent.prev, OtherMode(lastEvent.prev.mode))
        /\ history = <<>>
        /\ ComputersPlaying(lastEvent.prev) =>
              /\ timer.count = 0
              /\ ~timer.pending
              /\ updateQueue = <<>>
              /\ lastEvent.timerCleared <=> (lastEvent.flushed = 0)

\* computer-vs-computer selected again while the computers played round two
C31_Witness ==
    /\ lastEvent.op = "changeMode"
    /\ lastEvent.args = <<"computer-vs-computer">>
    /\ lastEvent.prev.mode = "computer-vs-computer"
    /\ lastEvent.prev.isPlaying
    /\ lastEvent.prev.currentRound = 1
    /\ lastEvent.timerCleared
    /\ gameState.currentRound = 0

HumanPlaying(s) == s.mode = "human-vs-computer" /\ s.isPlaying

\* C32: in human-vs-computer mode no timeout is ever scheduled and none ever
\* fires; a session Playing in that mode keeps Playing, with its counters as
\* they are, through every step that is not a human move, a change-mode or a
\* new-game.
C32_NoTimerInHumanMode ==
    (gameState.mode = "human-vs-computer") => (timer.count = 0 /\ ~timer.pending)

C32_NoFiringInHumanMode ==
    (lastEvent.op \in {"timeout", "timerFire"}) =>
        lastEvent.prev.mode = "computer-vs-computer"

C32_StaysPlaying ==
    (HumanPlaying(gameState)
       /\ lastEvent'.op \notin {"humanMove", "changeMode", "newGame"}) =>
        /\ HumanPlaying(gameState')
        /\ gameState'.currentRound = gameState.currentRound
        /\ gameState'.scores = gameState.scores

C32_HumanRoundWaits ==
    /\ [](C32_NoTimerInHumanMode /\ C32_NoFiringInHumanMode)
    /\ [][C32_StaysPlaying]_vars

\* the human's third round is being played and nothing is scheduled
C32_Witness ==
    /\ HumanPlaying(gameState)
    /\ gameState.currentRound = 2
    /\ lastEvent.op = "startRound"
    /\ timer = NoTimer
    /\ ~showPendingIndicator(rendered)

====
